---- MODULE Spec2Model ----
(***************************************************************************)
(* State-machine model of the_snake.py: the Snake and Apple objects and    *)
(* the driver loop of main().  Coordinates are pixels, as in the source.   *)
(***************************************************************************)
EXTENDS Integers, Sequences, FiniteSets, TLC

\* ---------------------------------------------------------------- constants
SCREEN_WIDTH == 640
SCREEN_HEIGHT == 480
GRID_SIZE == 20

UP == <<0, -1>>
DOWN == <<0, 1>>
LEFT == <<-1, 0>>
RIGHT == <<1, 0>>

\* Python's None (next_direction, last)
None == <<>>

\* ------------------------------------------------------------------- bounds
\* Spec: driver-loop iterations explored, with any input in each
MaxTicks == 7
\* SpecFar: driver-loop iterations explored, with directional keys only in
\* the first FarKeyTicks of them (long straight runs, up to the board's edges)
FarTicks == 18
FarKeyTicks == 3
\* events returned by one pygame.event.get() call
MaxEvents == 2
\* cap on the target length (growth beyond it is not explored)
MaxLength == 6
\* random.randint draws explored for the apple: columns centre..centre+AppleCols,
\* rows centre..centre+AppleRows
AppleCols == 2
AppleRows == 2

\* ------------------------------------------------------------------ helpers
Directions == {UP, DOWN, LEFT, RIGHT}

\* GameObject.__init__ default position, Snake.reset center_pos
center_pos == <<SCREEN_WIDTH \div 2, SCREEN_HEIGHT \div 2>>

\* random.randint(a, b): any integer of a..b
randint(a, b) == a..b

\* the draws of random.randint the model explores, around the centre cell
ColumnDraws == {c \in randint(0, (SCREEN_WIDTH \div GRID_SIZE) - 1) :
                  /\ c >= (SCREEN_WIDTH \div 2) \div GRID_SIZE
                  /\ c <= (SCREEN_WIDTH \div 2) \div GRID_SIZE + AppleCols}
RowDraws == {r \in randint(0, (SCREEN_HEIGHT \div GRID_SIZE) - 1) :
               /\ r >= (SCREEN_HEIGHT \div 2) \div GRID_SIZE
               /\ r <= (SCREEN_HEIGHT \div 2) \div GRID_SIZE + AppleRows}

\* mutant: the drawn column and row are not scaled to pixels
randomize_position_unscaled == {<<c, r>> : c \in ColumnDraws, r \in RowDraws}

\* Apple.randomize_position: the positions it can assign
randomize_position == {<<c * GRID_SIZE, r * GRID_SIZE>> : c \in ColumnDraws, r \in RowDraws}

\* Snake.get_head_position
get_head_position(ps) == ps[1]

\* mutant: the slice starts two segments later (positions[4:])
Slice2_late(ps) == SubSeq(ps, 5, Len(ps))

\* Python slice positions[2:]
Slice2(ps) == SubSeq(ps, 3, Len(ps))

\* Python "x in list"
In(x, ps) == \E i \in 1..Len(ps) : ps[i] = x

\* mutant: the new head is not wrapped at the board's edges
new_head_nowrap(ps, d) ==
  <<get_head_position(ps)[1] + d[1] * GRID_SIZE,
    get_head_position(ps)[2] + d[2] * GRID_SIZE>>

\* mutant: the step is one pixel, not one cell
new_head_pixel(ps, d) ==
  <<(get_head_position(ps)[1] + d[1]) % SCREEN_WIDTH,
    (get_head_position(ps)[2] + d[2]) % SCREEN_HEIGHT>>

\* Snake.move: new_head
new_head(ps, d) ==
  <<(get_head_position(ps)[1] + d[1] * GRID_SIZE) % SCREEN_WIDTH,
    (get_head_position(ps)[2] + d[2] * GRID_SIZE) % SCREEN_HEIGHT>>

\* mutant: the test looks for the current head, not the new one, in the body
Collides_head(ps, d) == In(get_head_position(ps), ps)

\* Snake.move: the self-collision test
Collides(ps, d) == In(new_head(ps, d), Slice2(ps))

\* mutant: the test compares the two directions for equality
IsReversal_same(cur, new) == cur = new

\* Snake.update_direction: the reversal test
IsReversal(cur, new) == <<cur[1] + new[1], cur[2] + new[2]>> = <<0, 0>>

\* mutants: every request is committed; no request is committed
Commit_always(cur, new) == new
Commit_never(cur, new) == cur

\* Snake.update_direction: the direction it commits for a pending request
Commit(cur, new) == IF ~IsReversal(cur, new) THEN new ELSE cur

\* mutant: the tail is also removed when the body just reaches the target length
ExceedsLength_ge(ps, len) == Len(ps) >= len

\* Snake.move: the tail is removed when the body exceeds the target length
ExceedsLength(ps, len) == Len(ps) > len

\* mutants: the tail is read but not removed; the head is removed instead (pop(0))
pop_keeps(ps) == [rest |-> ps, item |-> ps[Len(ps)]]
pop_front(ps) == [rest |-> SubSeq(ps, 2, Len(ps)), item |-> ps[1]]

\* Python list.pop(): the list without its last element, and that element
pop(ps) == [rest |-> SubSeq(ps, 1, Len(ps) - 1), item |-> ps[Len(ps)]]

\* mutant: any segment on the apple counts as eating it
AppleHit_body(ps, a) == In(a, ps)

\* main: snake.get_head_position() == apple.position
AppleHit(ps, a) == get_head_position(ps) = a

\* mutant: eating the apple adds two to the target length
Grown_twice(len) == len + 2

\* main: snake.length += 1
Grown(len) == len + 1

\* pygame events seen by handle_keys
Events == {"K_UP", "K_DOWN", "K_LEFT", "K_RIGHT", "K_OTHER", "QUIT"}
KeyEvents == {"K_UP", "K_DOWN", "K_LEFT", "K_RIGHT"}

EventSeqs == UNION {[1..n -> Events] : n \in 0..MaxEvents}

\* handle_keys: the effect of one event on next_direction
KeyDirection(e, nd) ==
  CASE e = "K_UP" -> UP
    [] e = "K_DOWN" -> DOWN
    [] e = "K_LEFT" -> LEFT
    [] e = "K_RIGHT" -> RIGHT
    [] OTHER -> nd

\* handle_keys: the for loop over events i..Len(evs); sys.exit() on QUIT ends it
RECURSIVE KeysLoop(_, _, _)
KeysLoop(evs, i, nd) ==
  IF i > Len(evs) THEN [nd |-> nd, quit |-> FALSE]
  ELSE IF evs[i] = "QUIT" THEN [nd |-> nd, quit |-> TRUE]
  ELSE KeysLoop(evs, i + 1, KeyDirection(evs[i], nd))

\* directional KEYDOWN events that handle_keys processes in a batch (those before a QUIT)
RECURSIVE NumKeys(_, _)
NumKeys(evs, i) ==
  IF i > Len(evs) \/ evs[i] = "QUIT" THEN 0
  ELSE (IF evs[i] \in KeyEvents THEN 1 ELSE 0) + NumKeys(evs, i + 1)

\* handle_keys(snake) on every batch: from next_direction nd, the possible
\* results (final next_direction, whether the process exited, directional keys seen)
handle_keys ==
  [nd \in Directions \cup {None} |->
     {[nd |-> KeysLoop(evs, 1, nd).nd, quit |-> KeysLoop(evs, 1, nd).quit,
       n |-> NumKeys(evs, 1)] : evs \in EventSeqs}]

\* -------------------------------------------------------------------- state
\* positions .. apple are the fields of the Snake and the Apple.  pc is the
\* driver's place in the loop body, ticks the iterations completed.  The rest
\* is history: moved is the outcome of the latest move() ("step", "reset"),
\* ate whether the latest apple check grew the snake, rejected the direction
\* kept by the latest update_direction() when it refused a reversal, and pre
\* the state found by the latest operation of the current iteration.
VARIABLES positions, length, direction, next_direction, last, apple,
          pc, ticks, moved, ate, rejected, pre

vars == <<positions, length, direction, next_direction, last, apple,
          pc, ticks, moved, ate, rejected, pre>>

\* the snake and the apple as an operation finds them (kept in pre)
Snapshot == [positions |-> positions, length |-> length, direction |-> direction,
             next_direction |-> next_direction, last |-> last, apple |-> apple,
             rejected |-> rejected]
NoPre == [positions |-> <<>>, length |-> 0, direction |-> None,
          next_direction |-> None, last |-> None, apple |-> None, rejected |-> None]

\* Snake.__init__, Apple.__init__, main before the loop
Init ==
  /\ positions = <<center_pos>>
  /\ length = 1
  /\ direction = RIGHT
  /\ next_direction = None
  /\ last = None
  /\ apple \in randomize_position
  /\ pc = "keys"
  /\ ticks = 0
  /\ moved = "none"
  /\ ate = FALSE
  /\ rejected = None
  /\ pre = NoPre

\* main step 1: handle_keys(snake)
HandleKeys(maxTicks, keyTicks) ==
  /\ pc = "keys"
  /\ ticks < maxTicks
  /\ \E r \in handle_keys[next_direction] :
       /\ ticks >= keyTicks => r.n = 0
       /\ next_direction' = r.nd
       /\ pc' = IF r.quit THEN "exit" ELSE "update"
  /\ pre' = NoPre
  /\ UNCHANGED <<positions, length, direction, last, apple, ticks, moved, ate, rejected>>

\* main step 2: snake.update_direction()
UpdateDirection ==
  /\ pc = "update"
  /\ IF next_direction # None
       THEN /\ direction' = Commit(direction, next_direction)
            /\ next_direction' = None
            /\ rejected' = IF IsReversal(direction, next_direction) THEN direction ELSE None
       ELSE /\ UNCHANGED <<direction, next_direction>>
            /\ rejected' = None
  /\ pc' = "move"
  /\ pre' = Snapshot
  /\ UNCHANGED <<positions, length, last, apple, ticks, moved, ate>>

\* mutant: reset forgets to set the target length back to 1
reset_keeps_length ==
  /\ length' = length
  /\ positions' = <<center_pos>>
  /\ direction' \in {UP, DOWN, LEFT, RIGHT}
  /\ next_direction' = None

\* Snake.reset (direction is random.choice of the four)
reset ==
  /\ length' = 1
  /\ positions' = <<center_pos>>
  /\ direction' \in {UP, DOWN, LEFT, RIGHT}
  /\ next_direction' = None

\* main step 3: snake.move()
Move ==
  /\ pc = "move"
  /\ IF Collides(positions, direction)
       THEN /\ reset
            /\ moved' = "reset"
            /\ UNCHANGED last
       ELSE LET ins == <<new_head(positions, direction)>> \o positions IN
            /\ IF ExceedsLength(ins, length)
                 THEN /\ positions' = pop(ins).rest
                      /\ last' = pop(ins).item
                 ELSE /\ positions' = ins
                      /\ UNCHANGED last
            /\ moved' = "step"
            /\ UNCHANGED <<length, direction, next_direction>>
  /\ pc' = "eat"
  /\ pre' = Snapshot
  /\ UNCHANGED <<apple, ticks, ate, rejected>>

\* main step 4: the apple check
Eat ==
  /\ pc = "eat"
  /\ IF AppleHit(positions, apple)
       THEN /\ length < MaxLength
            /\ length' = Grown(length)
            /\ apple' \in randomize_position
            /\ ate' = TRUE
       ELSE /\ ate' = FALSE
            /\ UNCHANGED <<length, apple>>
  /\ pc' = "draw"
  /\ pre' = Snapshot
  /\ UNCHANGED <<positions, direction, next_direction, last, ticks, moved, rejected>>

\* main steps 6-7: apple.draw, snake.draw (clears last), display update, clock tick
Draw ==
  /\ pc = "draw"
  /\ last' = None
  /\ pc' = "keys"
  /\ ticks' = ticks + 1
  /\ pre' = NoPre
  /\ UNCHANGED <<positions, length, direction, next_direction, apple, moved, ate, rejected>>

\* main: the while True loop, any input in every iteration
Next == HandleKeys(MaxTicks, MaxTicks) \/ UpdateDirection \/ Move \/ Eat \/ Draw

Spec == Init /\ [][Next]_vars

\* main: the same loop, followed further with directional keys in its first iterations only
NextFar == HandleKeys(FarTicks, FarKeyTicks) \/ UpdateDirection \/ Move \/ Eat \/ Draw

SpecFar == Init /\ [][NextFar]_vars


\* ------------------------------------------------------------------- claims
\* the wrap-around rule of the board, by cases on each axis
WrapAxis(v, dv, dim) ==
  IF v + dv * GRID_SIZE >= dim THEN v + dv * GRID_SIZE - dim
  ELSE IF v + dv * GRID_SIZE < 0 THEN v + dv * GRID_SIZE + dim
  ELSE v + dv * GRID_SIZE
WrapStep(p, d) == <<WrapAxis(p[1], d[1], SCREEN_WIDTH), WrapAxis(p[2], d[2], SCREEN_HEIGHT)>>

\* the new head of the move() whose result the state shows (pc = "eat")
MoveHead == WrapStep(pre.positions[1], pre.direction)
\* that move() found its new head in positions[2:]
MoveCollided == \E i \in 3..Len(pre.positions) : pre.positions[i] = MoveHead
AfterMove == pc = "eat"
AfterEat == pc = "draw"
AfterUpdate == pc = "move"
TickBoundary == pc = "keys"

C2_Original ==
  (AfterMove /\ ate) =>
    /\ Len(positions) = Len(pre.positions) + 1
    /\ Len(positions) = length

\* C2 amended: growth at tick T makes len(positions) at tick T+1 one more
\* than at tick T unless the move() of tick T+1 resets the snake (then it is
\* 1); either way len(positions) = length after that move() and until the
\* next growth.
C2_GrowthLaw ==
  /\ (AfterMove /\ ate /\ ~MoveCollided) =>
        /\ Len(positions) = Len(pre.positions) + 1
        /\ Len(positions) = length
  /\ (AfterMove /\ ate /\ MoveCollided) => (Len(positions) = 1 /\ length = 1)
  /\ (AfterMove \/ ~ate) => Len(positions) = length

C2_Witness ==
  /\ AfterMove /\ ate /\ ~MoveCollided
  /\ Len(pre.positions) >= 2
  /\ Len(positions) = Len(pre.positions) + 1

\* C3 as stated: at every tick boundary len(positions) = length unless the
\* tick just completed reset the snake.
C3_Original ==
  (TickBoundary /\ moved # "reset") => Len(positions) = length

\* C3 amended: at every tick boundary len(positions) = length unless the
\* growth trigger fired in the tick just completed, and then
\* length = len(positions) + 1, whether or not that tick reset the snake.
C3_TickBoundary ==
  TickBoundary => (IF ate THEN length = Len(positions) + 1
                          ELSE length = Len(positions))

C3_Witness ==
  /\ TickBoundary /\ ~ate /\ moved = "step"
  /\ Len(positions) >= 2
  /\ length = Len(positions)

\* C4: when the head equals the apple at the driver's check, afterwards
\* length is one more and the apple's position differs from its prior value.
C4_GrowthTrigger ==
  (AfterEat /\ pre.positions[1] = pre.apple) =>
    /\ length = pre.length + 1
    /\ apple # pre.apple

\* C5 as stated: in a tick whose move() reset the snake the growth trigger
\* is not evaluated: length stays 1 and the apple is not repositioned.
C5_Original ==
  (AfterEat /\ moved = "reset") =>
    /\ length = 1
    /\ ~ate
    /\ apple = pre.apple

\* C5 amended: the driver evaluates the growth trigger after every move(),
\* also one that reset the snake: such a tick ends with length 2 and the
\* apple drawn again when the apple was at the board centre, and with
\* length 1 and the apple untouched otherwise.
C5_TriggerAfterReset ==
  (AfterEat /\ moved = "reset") =>
    IF pre.apple = center_pos
      THEN length = 2 /\ ate /\ apple \in randomize_position
      ELSE length = 1 /\ ~ate /\ apple = pre.apple

C5_Witness ==
  /\ AfterEat /\ moved = "reset"
  /\ pre.apple = center_pos
  /\ length = 2

\* the exact opposite of a direction
Opposite(d) == <<0 - d[1], 0 - d[2]>>

\* update_direction() found a pending request for the opposite direction
UpdateSawReversal ==
  /\ pre.next_direction # None
  /\ pre.next_direction = Opposite(pre.direction)

C7_TurnAccepted ==
  AfterUpdate =>
    /\ (pre.next_direction \in {UP, DOWN, LEFT, RIGHT} /\ ~UpdateSawReversal) =>
          (direction = pre.next_direction /\ next_direction = None)
    /\ pre.next_direction = None =>
          (direction = pre.direction /\ next_direction = None)

C7_Witness ==
  /\ AfterUpdate
  /\ pre.next_direction \in {UP, DOWN, LEFT, RIGHT}
  /\ pre.next_direction # pre.direction
  /\ ~UpdateSawReversal
  /\ direction = pre.next_direction
  /\ Len(positions) >= 2

\* C8: after a move() without collision the new head is the old head plus
\* direction * GRID_SIZE modulo the board size, each axis on its own: past
\* the last column/row it is 0, before column/row 0 it is the last one.
C8_WrapAround ==
  (AfterMove /\ ~MoveCollided) =>
    LET old == pre.positions[1]
        d == pre.direction
        new == positions[1]
    IN /\ new = MoveHead
       /\ 0 <= new[1] /\ new[1] < SCREEN_WIDTH
       /\ 0 <= new[2] /\ new[2] < SCREEN_HEIGHT
       /\ (new[1] - (old[1] + d[1] * GRID_SIZE)) % SCREEN_WIDTH = 0
       /\ (new[2] - (old[2] + d[2] * GRID_SIZE)) % SCREEN_HEIGHT = 0
       /\ (old[1] = SCREEN_WIDTH - GRID_SIZE /\ d = RIGHT) => new = <<0, old[2]>>
       /\ (old[2] = SCREEN_HEIGHT - GRID_SIZE /\ d = DOWN) => new = <<old[1], 0>>
       /\ (old[1] = 0 /\ d = LEFT) => new = <<SCREEN_WIDTH - GRID_SIZE, old[2]>>
       /\ (old[2] = 0 /\ d = UP) => new = <<old[1], SCREEN_HEIGHT - GRID_SIZE>>

\* the spec's scenario: length 1 at (620, 240) moving RIGHT reappears at (0, 240)
C8_Witness ==
  /\ AfterMove /\ ~MoveCollided
  /\ pre.positions = <<(<<SCREEN_WIDTH - GRID_SIZE, SCREEN_HEIGHT \div 2>>)>>
  /\ pre.direction = RIGHT
  /\ positions = <<(<<0, SCREEN_HEIGHT \div 2>>)>>

\* the other three edges are crossed as well
C8_WitnessLeft == AfterMove /\ pre.positions[1][1] = 0 /\ pre.direction = LEFT
C8_WitnessUp == AfterMove /\ pre.positions[1][2] = 0 /\ pre.direction = UP
C8_WitnessDown == AfterMove /\ pre.positions[1][2] = SCREEN_HEIGHT - GRID_SIZE /\ pre.direction = DOWN

\* C9: a collision-free move() with body P and new head h leaves
\* positions = [h] + P[:-1] and last = P[-1] when len(P) = length, and
\* positions = [h] + P with last unchanged when len(P) < length; so a
\* length-1 snake that meets no apple steps one cell and stays of length 1.
C9_BodyUpdate ==
  /\ (AfterMove /\ ~MoveCollided) =>
       LET P == pre.positions
           h == MoveHead
       IN /\ Len(P) = pre.length =>
               /\ positions = <<h>> \o SubSeq(P, 1, Len(P) - 1)
               /\ last = P[Len(P)]
          /\ Len(P) < pre.length =>
               /\ positions = <<h>> \o P
               /\ last = pre.last
          /\ length = pre.length
  /\ (AfterEat /\ moved = "step" /\ pre.length = 1 /\ pre.positions[1] # pre.apple) =>
       (length = 1 /\ Len(positions) = 1)

C9_Witness ==
  /\ AfterMove /\ ~MoveCollided
  /\ Len(pre.positions) >= 2
  /\ Len(pre.positions) < pre.length
  /\ positions = <<MoveHead>> \o pre.positions

\* the other case: the tail is removed and remembered
C9_WitnessPop ==
  /\ AfterMove /\ ~MoveCollided
  /\ Len(pre.positions) >= 2
  /\ Len(pre.positions) = pre.length
  /\ last = pre.positions[Len(pre.positions)]

WillCollide ==
  /\ pc = "move"
  /\ \E i \in 3..Len(positions) : positions[i] = WrapStep(positions[1], direction)

\* C11: reset happens only on a self-collision found by move(): in every
\* step of a tick other than a move() whose new head is in positions[2:],
\* length does not decrease, len(positions) does not decrease, and direction
\* changes only by update_direction() committing the pending request.
C11_ResetOnlyOnCollision ==
  [][~WillCollide =>
       /\ length' >= length
       /\ Len(positions') >= Len(positions)
       /\ direction' # direction =>
            (pc = "update" /\ next_direction # None /\ direction' = next_direction)]_vars

\* a move() passes the body by (positions[2:] is not empty and not hit)
\* after update_direction() committed a turn
C11_Witness ==
  /\ AfterMove /\ ~MoveCollided
  /\ Len(pre.positions) >= 4
  /\ Len(positions) >= Len(pre.positions)
  /\ length = pre.length
  /\ pre.positions[1] # WrapStep(pre.positions[2], pre.direction)

\* the direction each arrow key asks for
KeyAsks == [K_UP |-> UP, K_DOWN |-> DOWN, K_LEFT |-> LEFT, K_RIGHT |-> RIGHT]

\* a batch of events leaves pending the request of its last arrow key only
LastKeyWins ==
  \A evs \in EventSeqs :
    (\A i \in 1..Len(evs) : evs[i] # "QUIT") =>
      LET ks == {i \in 1..Len(evs) : evs[i] \in KeyEvents}
          lastk == CHOOSE i \in ks : \A j \in ks : j <= i
      IN KeysLoop(evs, 1, None).nd = IF ks = {} THEN None ELSE KeyAsks[evs[lastk]]

\* C12: one pending request at most (a later key of the same tick
\* overwrites an earlier one) and one commit per tick: when a tick did not
\* reset the snake, the direction move() uses in the next tick is never the
\* opposite of the one it used in that tick, whatever keys arrive.
C12_NoInstantReversal ==
  /\ next_direction \in {UP, DOWN, LEFT, RIGHT, None}
  /\ (TickBoundary /\ ticks = 0) => LastKeyWins
  /\ (AfterUpdate /\ ticks >= 1 /\ moved = "step") =>
        /\ direction # Opposite(pre.direction)
        /\ next_direction = None

\* a reversal was asked for between two moves of a snake with a body
C12_Witness ==
  /\ AfterUpdate /\ ticks >= 1 /\ moved = "step"
  /\ pre.next_direction = Opposite(pre.direction)
  /\ Len(positions) >= 2
  /\ positions[1] = WrapStep(positions[2], direction)

\* move() stepped onto the cell of the last segment only, with the body at
\* its target length (the tail would leave that cell in the same move)
MoveOntoTail ==
  /\ Len(pre.positions) >= 3
  /\ Len(pre.positions) = pre.length
  /\ pre.positions[Len(pre.positions)] = MoveHead
  /\ \A i \in 1..(Len(pre.positions) - 1) : pre.positions[i] # MoveHead

\* C13: the collision test of move() exempts the oldest tail segment, as
\* its comment says: stepping onto the cell of positions[-1] while
\* len(positions) = length does not reset the snake, the head moves there.
C13_TailExemption ==
  (AfterMove /\ MoveOntoTail) =>
    /\ moved = "step"
    /\ positions[1] = MoveHead
    /\ length = pre.length

\* update_direction() has committed the direction move() is about to use
BeforeMove == pc = "move"

\* C14: with len(positions) >= 2 the new head move() computes from the
\* committed direction is neither the neck positions[1] nor the head
\* positions[0], also when the step wraps around the board.
C14_NeckNeverHit ==
  (BeforeMove /\ Len(positions) >= 2) =>
    /\ WrapStep(positions[1], direction) # positions[2]
    /\ WrapStep(positions[1], direction) # positions[1]

\* the step wraps around the right edge, the neck being on the board's last columns
C14_Witness ==
  /\ BeforeMove /\ Len(positions) >= 2
  /\ positions[1][1] = SCREEN_WIDTH - GRID_SIZE
  /\ direction = RIGHT
  /\ WrapStep(positions[1], direction)[1] = 0

\* a reversal was asked for while the snake had a neck
C14_WitnessReversal ==
  /\ BeforeMove /\ Len(positions) >= 2
  /\ pre.next_direction = Opposite(pre.direction)

\* C15: the apple's position changes only in the driver's apple check, and
\* only when the head is on the apple then; when the head after move() is
\* elsewhere the apple stays, and update_direction(), move() and reset()
\* (like handle_keys() and the drawing) never touch it.
C15_AppleFrame ==
  [][/\ apple' # apple => (pc = "eat" /\ positions[1] = apple)
     /\ (pc = "eat" /\ positions[1] # apple) => apple' = apple
     /\ pc \in {"keys", "update", "move", "draw"} => apple' = apple]_vars

\* the apple check left alone an apple lying under the body, after a reset-free move
C15_Witness ==
  /\ AfterEat /\ moved = "step"
  /\ pre.positions[1] # pre.apple
  /\ apple = pre.apple
  /\ \E i \in 2..Len(positions) : positions[i] = apple

\* a reset left the apple alone
C15_WitnessReset ==
  /\ AfterMove /\ moved = "reset"
  /\ apple = pre.apple
  /\ apple # center_pos

\* a position is a cell of the board
OnGrid(p) ==
  /\ p[1] % GRID_SIZE = 0
  /\ p[2] % GRID_SIZE = 0
  /\ 0 <= p[1] /\ p[1] < SCREEN_WIDTH
  /\ 0 <= p[2] /\ p[2] < SCREEN_HEIGHT

\* C16: every element of positions is a cell of the board in every state:
\* initially, after every move() and after every reset.
C16_BodyOnGrid ==
  \A i \in 1..Len(positions) : OnGrid(positions[i])

\* a snake with a body lies across the board's right edge
C16_Witness ==
  /\ AfterMove /\ moved = "step"
  /\ Len(positions) >= 2
  /\ positions[1][1] = 0
  /\ positions[2][1] = SCREEN_WIDTH - GRID_SIZE

\* and across the top edge
C16_WitnessTop ==
  /\ AfterMove /\ moved = "step"
  /\ positions[1][2] = SCREEN_HEIGHT - GRID_SIZE
  /\ pre.positions[1][2] = 0

\* the driver's tick has done its move() and its apple check
EndOfTick == pc \in {"draw", "keys"}

\* C17: positions is never empty; right after every move(), whether it
\* stepped or reset, len(positions) = length; at the end of every tick
\* 0 <= length - len(positions) <= 1.
C17_LengthBookkeeping ==
  /\ Len(positions) >= 1
  /\ AfterMove => Len(positions) = length
  /\ EndOfTick => (0 <= length - Len(positions) /\ length - Len(positions) <= 1)

\* a tick ends with the target one ahead of a body of several cells
C17_Witness ==
  /\ EndOfTick /\ ticks >= 1
  /\ length - Len(positions) = 1
  /\ Len(positions) >= 3

\* a move() that reset a grown snake leaves len(positions) = length
C17_WitnessReset ==
  /\ AfterMove /\ moved = "reset"
  /\ pre.length > Len(pre.positions)
  /\ Len(positions) = length

\* C18: the cells of positions are pairwise distinct in every state,
\* whatever the inputs, the apple placements and the resets.
C18_NoSelfOverlap ==
  \A i, j \in 1..Len(positions) : i # j => positions[i] # positions[j]

\* the head has just stepped next to a segment of its own body that is not
\* its neck: the snake is curled and still covers distinct cells
C18_Witness ==
  /\ AfterMove /\ moved = "step"
  /\ Len(positions) >= 5
  /\ \E i \in 4..Len(positions) : \E d \in {UP, DOWN, LEFT, RIGHT} :
       positions[i] = WrapStep(positions[1], d)

\* C19: on the 32x24-cell board move() never resets a snake of at most 3
\* segments, whatever the input; a snake of 4 segments can be reset.
C19_ShortSnakesSurvive ==
  /\ SCREEN_WIDTH \div GRID_SIZE = 32 /\ SCREEN_HEIGHT \div GRID_SIZE = 24
  /\ (AfterMove /\ moved = "reset") => Len(pre.positions) >= 4
  /\ (BeforeMove /\ Len(positions) <= 3) =>
        \A i \in 3..Len(positions) : positions[i] # WrapStep(positions[1], direction)

\* a snake of exactly 4 segments is reset
C19_Witness ==
  /\ AfterMove /\ moved = "reset"
  /\ Len(pre.positions) = 4
  /\ Len(positions) = 1

\* a snake of 3 segments turns back beside its own body and survives
C19_WitnessShort ==
  /\ AfterMove /\ moved = "step"
  /\ Len(pre.positions) = 3
  /\ pre.direction = Opposite(<<(pre.positions[2][1] - pre.positions[3][1]) \div GRID_SIZE,
                                (pre.positions[2][2] - pre.positions[3][2]) \div GRID_SIZE>>)

====
